---- MODULE Spec2Model ----
(***************************************************************************)
(* Model of app.py: the Streamlit front end of a yt-dlp based downloader.  *)
(*                                                                         *)
(* Python strings are sequences of string tokens whose concatenation is    *)
(* the string: data strings (titles, progress texts, qualities) are one    *)
(* token per character, literal parts of f-strings are one token each.     *)
(* The character 0x1B is the token "ESC", the backtick is "BACKTICK".      *)
(* Other Python values are tagged                                          *)
(* records: None, PyStr(s), PyInt(n), PyFloat(n).  A dict is a record; a   *)
(* key the dict does not have is a field the record does not have.         *)
(***************************************************************************)
EXTENDS Integers, Sequences, FiniteSets, TLC

\* ------------------------------------------------------------------ bounds
MaxLen == 3          \* longest filename given to sanitize_filename
MaxFormats == 4      \* longest 'formats' list given to the quality extractor
MaxEvents == 3       \* progress events delivered during one download

\* ------------------------------------------------------------ Python values
None == [t |-> "none"]
PyStr(s) == [t |-> "str", s |-> s]
PyInt(n) == [t |-> "int", v |-> n]
PyFloat(n) == [t |-> "float", v |-> n]

HasKey(d, k) == k \in DOMAIN d

\* bool(v) of a value that is None or a str
Truthy(v) == v.t = "str" /\ v.s # <<>>

Digit(d) == <<"0", "1", "2", "3", "4", "5", "6", "7", "8", "9">>[d + 1]

RECURSIVE IntToStr(_)
\* str(n) of a non-negative int, as f"{n}" formats it
IntToStr(n) == IF n < 10 THEN <<Digit(n)>>
               ELSE IntToStr(n \div 10) \o <<Digit(n % 10)>>

\* ------------------------------------------------------- sanitize_filename
InvalidChars == {"<", ">", ":", "\"", "/", "\\", "|", "?", "*"}

\* the character class without the backslash
BrokenInvalidChars == {"<", ">", ":", "\"", "/", "|", "?", "*"}

sanitize_filename_noescape(filename) ==
    [i \in 1..Len(filename) |->
        IF filename[i] \in BrokenInvalidChars THEN "_" ELSE filename[i]]

sanitize_filename(filename) ==
    [i \in 1..Len(filename) |->
        IF filename[i] \in InvalidChars THEN "_" ELSE filename[i]]

\* ---------------------------------------------------- sanitize_for_display
\* the character classes of the pattern \x1B(?:[@-Z\\-_]|\[[0-?]*[ -/]*[@-~])
UpperCase == {"A", "B", "C", "D", "E", "F", "G", "H", "I", "J", "K", "L", "M",
              "N", "O", "P", "Q", "R", "S", "T", "U", "V", "W", "X", "Y", "Z"}
LowerCase == {"a", "b", "c", "d", "e", "f", "g", "h", "i", "j", "k", "l", "m",
              "n", "o", "p", "q", "r", "s", "t", "u", "v", "w", "x", "y", "z"}
EscTwoChar == {"@"} \cup UpperCase \cup {"\\", "]", "^", "_"}
CsiParam == {"0", "1", "2", "3", "4", "5", "6", "7", "8", "9",
             ":", ";", "<", "=", ">", "?"}
CsiIntermediate == {" ", "!", "\"", "#", "$", "%", "&", "'", "(", ")",
                    "*", "+", ",", "-", ".", "/"}
CsiFinal == {"@"} \cup UpperCase \cup {"[", "\\", "]", "^", "_", "BACKTICK"}
            \cup LowerCase \cup {"{", "|", "}", "~"}

RECURSIVE SkipClass(_, _, _)
\* first position >= i of text that is not in class (a greedy X*)
SkipClass(text, i, class) ==
    IF i <= Len(text) /\ text[i] \in class
    THEN SkipClass(text, i + 1, class) ELSE i

\* length of the match of the pattern at position i, 0 when there is none.
\* The three CSI classes are pairwise disjoint, so the greedy match is the
\* only candidate.
AnsiMatchLen(text, i) ==
    IF text[i] # "ESC" \/ i + 1 > Len(text) THEN 0
    ELSE IF text[i + 1] \in EscTwoChar THEN 2
    ELSE IF text[i + 1] # "[" THEN 0
    ELSE LET j == SkipClass(text, SkipClass(text, i + 2, CsiParam),
                            CsiIntermediate)
         IN  IF j <= Len(text) /\ text[j] \in CsiFinal THEN j + 1 - i ELSE 0

RECURSIVE AnsiSub(_, _)
\* ansi_escape.sub of the empty string, from position i on
AnsiSub(text, i) ==
    IF i > Len(text) THEN <<>>
    ELSE LET n == AnsiMatchLen(text, i)
         IN  IF n > 0 THEN AnsiSub(text, i + n)
             ELSE <<text[i]>> \o AnsiSub(text, i + 1)

sanitize_for_display(text) ==
    IF text.t # "str" THEN <<>> ELSE AnsiSub(text.s, 1)

\* ---------------------------------------------- extract_available_qualities
\* the condition without the test of ext
AcceptsAnyContainer(f) ==
    /\ (HasKey(f, "vcodec") => f.vcodec # "none")
    /\ HasKey(f, "height") /\ f.height.t = "int"

\* the condition of line 39; f.get(k) of a missing key is None
AcceptsFormat(f) ==
    /\ (HasKey(f, "vcodec") => f.vcodec # "none")
    /\ HasKey(f, "ext") /\ f.ext = "mp4"
    /\ HasKey(f, "height") /\ f.height.t = "int"

RECURSIVE CollectQualities(_, _, _)
\* the loop of lines 38-40 from entry i on; qualities is the set so far
CollectQualities(formats, i, qualities) ==
    IF i > Len(formats) THEN qualities
    ELSE CollectQualities(formats, i + 1,
             IF AcceptsFormat(formats[i])
             THEN qualities \cup {formats[i].height.v} ELSE qualities)

SetMax(S) == CHOOSE m \in S : \A x \in S : x <= m

RECURSIVE SortedReverse(_)
\* sorted(list(S), reverse=True)
SortedReverse(S) ==
    IF S = {} THEN <<>>
    ELSE <<SetMax(S)>> \o SortedReverse(S \ {SetMax(S)})

FallbackQualities == << <<"7", "2", "0", "p">>, <<"3", "6", "0", "p">> >>

extract_available_qualities(info) ==
    LET formats == IF HasKey(info, "formats") THEN info.formats ELSE <<>>
        qualities == CollectQualities(formats, 1, {})
        sorted_qualities == SortedReverse(qualities)
    IN  IF qualities = {} THEN FallbackQualities
        ELSE [i \in 1..Len(sorted_qualities) |->
                 IntToStr(sorted_qualities[i]) \o <<"p">>]

\* ------------------------------------------------------------ progress_hook
DefaultPercent == PyStr(<<"0", ".", "0", "%">>)
DefaultNA == PyStr(<<"N", "/", "A">>)

DGet(d, k, default) == IF HasKey(d, k) THEN d[k] ELSE default

StepInfo(step, total_steps) ==
    <<"Step ">> \o IntToStr(step) \o <<"/">> \o IntToStr(total_steps) \o <<":">>

\* the label of line 56
DownloadingLabel(d, ps) ==
    StepInfo(ps.step, ps.total_steps) \o <<" Downloading... ">>
    \o sanitize_for_display(DGet(d, "_percent_str", DefaultPercent))
    \o <<" (">> \o sanitize_for_display(DGet(d, "_speed_str", DefaultNA))
    \o <<" - ETA: ">> \o sanitize_for_display(DGet(d, "_eta_str", DefaultNA))
    \o <<")">>

\* the label of lines 59-60, ps being the state after the increment
FinishedLabel(ps) ==
    StepInfo(ps.step - 1, ps.total_steps)
    \o <<" Download finished. Starting conversion...">>

\* progress_hook labelling a finished step with the number after the
\* increment
progress_hook_poststep(d, status_box, ps) ==
    IF d.status = "downloading"
    THEN [status_box |-> [status_box EXCEPT !.label = DownloadingLabel(d, ps)],
          progress_state |-> ps]
    ELSE IF d.status = "finished"
    THEN LET ps1 == [ps EXCEPT !.step = @ + 1]
         IN  [status_box |->
                  [status_box EXCEPT !.label =
                      StepInfo(ps1.step, ps1.total_steps)
                      \o <<" Download finished. Starting conversion...">>],
              progress_state |-> ps1]
    ELSE [status_box |-> status_box, progress_state |-> ps]

\* progress_hook(d, status_box, progress_state): the status box and the
\* progress state after the call
progress_hook(d, status_box, ps) ==
    IF d.status = "downloading"
    THEN [status_box |-> [status_box EXCEPT !.label = DownloadingLabel(d, ps)],
          progress_state |-> ps]
    ELSE IF d.status = "finished"
    THEN LET ps1 == [ps EXCEPT !.step = @ + 1]
         IN  [status_box |-> [status_box EXCEPT !.label = FinishedLabel(ps1)],
              progress_state |-> ps1]
    ELSE [status_box |-> status_box, progress_state |-> ps]

\* ---------------------------------------------------------- handle_download
Contains(s, c) == \E i \in 1..Len(s) : s[i] = c

\* lines 72-77: the format specifier
FormatString(format_type, quality_setting) ==
    IF format_type = "mp3" THEN <<"bestaudio/best">>
    ELSE LET height == SubSeq(quality_setting, 1, Len(quality_setting) - 1)
         IN  <<"bestvideo[ext=mp4][height<=">> \o height
             \o <<"]", "+", "bestaudio[ext=m4a]/best[ext=mp4][height<=">>
             \o height \o <<"]">>

\* lines 74, 78
Postprocessors(format_type, quality_setting) ==
    IF format_type = "mp3"
    THEN <<[key |-> "FFmpegExtractAudio", preferredcodec |-> "mp3",
            preferredquality |-> quality_setting]>>
    ELSE <<>>

\* the progress state without lines 79-80
InitialProgressStateSingle(format_type, format_string) ==
    [step |-> 1, total_steps |-> 1]

\* lines 69, 72, 79-80
InitialProgressState(format_type, format_string) ==
    [step |-> 1,
     total_steps |-> IF format_type # "mp3" /\ Contains(format_string, "+")
                     THEN 2 ELSE 1]

\* lines 66-67, 82-89 (the hooks are ProgressHook below)
YdlOpts(title, format_type, quality_setting) ==
    [outtmpl |-> <<"TEMP_DIR", "/">> \o sanitize_filename(title)
                 \o <<".%(ext)s">>,
     format |-> FormatString(format_type, quality_setting),
     postprocessors |-> Postprocessors(format_type, quality_setting)]

\* line 100: info_dict.get('requested_downloads', [{}])[0].get('filepath')
ResolveFilepath(info) ==
    IF ~HasKey(info, "requested_downloads")
    THEN [raises |-> "", value |-> None]
    ELSE IF info.requested_downloads = <<>>
    THEN [raises |-> "list index out of range", value |-> None]
    ELSE [raises |-> "",
          value |-> DGet(info.requested_downloads[1], "filepath", None)]

RECURSIVE LastSlash(_, _)
LastSlash(path, i) ==
    IF i = 0 \/ path[i] = "/" THEN i ELSE LastSlash(path, i - 1)

\* os.path.basename
Basename(path) == SubSeq(path, LastSlash(path, Len(path)) + 1, Len(path))

\* ------------------------------------------------------------------- state
VARIABLES
    url,              \* value of the URL text input (line 137)
    session_state,    \* st.session_state: video_info, available_qualities,
                      \* last_url, status_box ("absent", "None" or "status")
    rendered,         \* messages written by the current script run
    pc,               \* "idle", or "extract_info" while line 99 is running
    request,          \* arguments of handle_download in the current run
    ydl_opts,         \* lines 82-89
    progress_state,   \* line 69
    status,           \* the st.status container of line 93: label, state
    temp_dir,         \* TRUE while the directory of line 65 exists
    download_button,  \* the control of lines 113-119
    info_dict,        \* what line 99 returned
    last_event,       \* the dict last given to the progress hook
    hook_calls,       \* calls of the progress hook in the current download
    ext_calls,        \* calls of ydl.extract_info(download=True) in the run
    path_exists,      \* what os.path.exists answered on line 102
    failure,          \* the exception raised inside handle_download, or ""
    propagated,       \* TRUE when that exception left handle_download
    clicked,          \* the button that started the current script run
    arg, ret          \* argument and result of a function applied alone

vars == <<url, session_state, rendered, pc, request, ydl_opts, progress_state,
          status, temp_dir, download_button, info_dict, last_event,
          hook_calls, ext_calls, path_exists, failure, propagated, clicked,
          arg, ret>>

download_vars == <<request, ydl_opts, progress_state, status,
                   download_button, info_dict, last_event, hook_calls,
                   ext_calls, path_exists, failure, propagated>>

\* ------------------------------------------------------------- environment
Urls == {<<>>, <<"https://a">>, <<"https://b">>}

SampleFormats ==
    <<[vcodec |-> "avc1", ext |-> "mp4", height |-> PyInt(1080)],
      [vcodec |-> "none", ext |-> "m4a"],
      [vcodec |-> "avc1", ext |-> "mp4", height |-> PyInt(720)],
      [vcodec |-> "vp9", ext |-> "webm", height |-> PyInt(1440)],
      [vcodec |-> "avc1", ext |-> "mp4", height |-> PyInt(720)],
      [ext |-> "mp4", height |-> PyInt(480)]>>

\* what ydl.extract_info(u, download=False) can return
VideoInfos(u) ==
    {[original_url |-> u, title |-> PyStr(<<"a", "/", "b">>),
      formats |-> SampleFormats],
     [original_url |-> u, formats |-> <<>>],
     [original_url |-> u, title |-> None]}

\* get_video_info(u): the metadata, or None after a DownloadError
get_video_info(u) == VideoInfos(u) \cup {None}

AnsiPercent == <<"ESC", "[", "0", ";", "9", "4", "m", "4", "5", ".", "0", "%",
                 "ESC", "[", "0", "m">>

\* the dicts yt-dlp gives to a progress hook
ProgressEvents ==
    {[status |-> "downloading",
      _percent_str |-> PyStr(<<"4", "5", ".", "0", "%">>),
      _speed_str |-> PyStr(<<"1", ".", "2", "M", "i", "B", "/", "s">>),
      _eta_str |-> PyStr(<<"0", "0", ":", "1", "0">>)],
     [status |-> "downloading",
      _percent_str |-> PyStr(AnsiPercent),
      _speed_str |-> None],
     [status |-> "finished"],
     [status |-> "error"]}

\* the file yt-dlp writes for an output template
FinalPath(outtmpl, format_type) ==
    SubSeq(outtmpl, 1, Len(outtmpl) - 1) \o <<".", format_type>>

\* what ydl.extract_info(url, download=True) can return
DownloadResults(opts, format_type) ==
    {[id |-> "v", requested_downloads |->
         <<[filepath |-> PyStr(FinalPath(opts.outtmpl, format_type))]>>],
     [id |-> "v"],
     [id |-> "v", requested_downloads |-> <<>>],
     [id |-> "v", requested_downloads |-> <<[ext |-> format_type]>>]}

Mp3Bitrates == << <<"1", "2", "8">>, <<"1", "9", "2">>,
                  <<"2", "5", "6">>, <<"3", "2", "0">> >>

\* st.selectbox(options): the values the user can leave selected
Selectbox(options) ==
    IF options = <<>> THEN {None}
    ELSE {PyStr(options[i]) : i \in 1..Len(options)}

WarnEnterUrl == <<"Please enter a URL.">>
ErrVideoNotFound == <<"Video not found. Please check the URL.">>
ErrFinalFile == <<"Could not retrieve the final file.">>
ErrUnexpected(e) == <<"An unexpected error occurred: ", e>>

\* -------------------------------------------------------------------- main
\* lines 130-132
InitSessionKeys(ss) ==
    [ss EXCEPT !.status_box = IF @ = "absent" THEN "None" ELSE @]

\* lines 138-141 without the clearing of lines 139-140
ResetKeepsInfo(ss, u) ==
    IF u # <<>> /\ PyStr(u) # ss.last_url
    THEN [ss EXCEPT !.last_url = PyStr(u)]
    ELSE ss

\* lines 138-141
ResetOnNewUrl(ss, u) ==
    IF u # <<>> /\ PyStr(u) # ss.last_url
    THEN [ss EXCEPT !.video_info = None, !.available_qualities = <<>>,
                    !.last_url = PyStr(u)]
    ELSE ss

\* lines 130-141 of a script run whose text input holds u
RunTop(ss, u) == ResetOnNewUrl(InitSessionKeys(ss), u)

\* a script run that does not reach handle_download
NoDownload ==
    /\ request' = None /\ ydl_opts' = None /\ progress_state' = None
    /\ status' = None /\ download_button' = None
    /\ info_dict' = None /\ last_event' = None
    /\ hook_calls' = 0 /\ ext_calls' = 0 /\ path_exists' = FALSE
    /\ failure' = "" /\ propagated' = FALSE
    /\ UNCHANGED temp_dir

\* the session and the page after the first script run (lines 130-132)
SessionIdle ==
    /\ url = <<>>
    /\ session_state = [video_info |-> None, available_qualities |-> <<>>,
                        last_url |-> None, status_box |-> "None"]
    /\ rendered = {}
    /\ pc = "idle"
    /\ request = None /\ ydl_opts = None /\ progress_state = None
    /\ status = None /\ temp_dir = FALSE /\ download_button = None
    /\ info_dict = None /\ last_event = None
    /\ hook_calls = 0 /\ ext_calls = 0 /\ path_exists = FALSE
    /\ failure = "" /\ propagated = FALSE /\ clicked = "none"

Init ==
    /\ SessionIdle
    /\ arg = None /\ ret = None

\* the user changes the text input; the script reruns with no button pressed
EditUrl(u) ==
    /\ pc = "idle"
    /\ u # url
    /\ url' = u
    /\ session_state' = RunTop(session_state, u)
    /\ rendered' = {}
    /\ clicked' = "none"
    /\ NoDownload
    /\ UNCHANGED <<pc, arg, ret>>

\* the user clicks "Analyze Video" (lines 143-154)
ClickAnalyze ==
    /\ pc = "idle"
    /\ LET ss == RunTop(session_state, url)
       IN  IF url # <<>>
           THEN \E info \in get_video_info(url) :
                  IF info # None
                  THEN /\ session_state' =
                            [ss EXCEPT !.video_info = info,
                                       !.available_qualities =
                                           extract_available_qualities(info)]
                       /\ rendered' = {}
                  ELSE /\ session_state' = [ss EXCEPT !.video_info = None]
                       /\ rendered' = {ErrVideoNotFound}
           ELSE /\ session_state' = ss
                /\ rendered' = {WarnEnterUrl}
    /\ clicked' = "analyze"
    /\ NoDownload
    /\ UNCHANGED <<url, pc, arg, ret>>

\* ---------------------------------------------------------- handle_download
\* a directory made without the with block stays
TemporaryDirectoryLeak(exists) == exists

\* line 65: what is left of the directory when the with block is left

TemporaryDirectoryExit(exists) == FALSE

Untitled == PyStr(<<"U", "n", "t", "i", "t", "l", "e", "d">>)

\* handle_download is left before line 92 by the exception e
LeaveEarly(ss, e, dir) ==
    /\ session_state' = ss
    /\ rendered' = {}
    /\ failure' = e /\ propagated' = TRUE
    /\ temp_dir' = dir
    /\ ydl_opts' = None /\ progress_state' = None /\ status' = None
    /\ ext_calls' = 0
    /\ UNCHANGED pc

\* lines 63-99: handle_download up to the blocking call of line 99
EnterHandleDownload(ss, u, title, format_type, quality_setting) ==
    /\ request' = [url |-> u, title |-> title, format_type |-> format_type,
                   quality_setting |-> quality_setting]
    /\ download_button' = None /\ info_dict' = None /\ last_event' = None
    /\ hook_calls' = 0 /\ path_exists' = FALSE
    /\ \E tmp_ok \in BOOLEAN :
         IF ~tmp_ok
         THEN LeaveEarly(ss, "OSError", temp_dir)
         ELSE IF title.t # "str"
         THEN LeaveEarly(ss, "TypeError", TemporaryDirectoryExit(TRUE))
         ELSE LET opts == YdlOpts(title.s, format_type, quality_setting)
                  ps == InitialProgressState(format_type, opts.format)
              IN  /\ ydl_opts' = opts
                  /\ progress_state' = ps
                  /\ status' = [label |-> <<"Step 1/">>
                                          \o IntToStr(ps.total_steps)
                                          \o <<": Initializing...">>,
                                state |-> "running"]
                  /\ session_state' = [ss EXCEPT !.status_box = "status"]
                  /\ rendered' = {<<"Starting download process...">>}
                  /\ temp_dir' = TRUE
                  /\ ext_calls' = 1
                  /\ failure' = "" /\ propagated' = FALSE
                  /\ pc' = "extract_info"

\* the user clicks "Start Download" (lines 156-191); the button is on the
\* page when the previous run rendered the video panel
ClickStartDownload ==
    /\ pc = "idle"
    /\ session_state.video_info # None
    /\ LET ss == RunTop(session_state, url)
       IN  IF ss.video_info = None
           THEN /\ session_state' = ss /\ rendered' = {} /\ NoDownload
                /\ UNCHANGED pc
           ELSE \E format_type \in {"mp3", "mp4"} :
                \E quality_setting \in
                     Selectbox(IF format_type = "mp3" THEN Mp3Bitrates
                               ELSE ss.available_qualities) :
                  IF Truthy(quality_setting)
                  THEN EnterHandleDownload(ss, url,
                           DGet(ss.video_info, "title", Untitled),
                           format_type, quality_setting.s)
                  ELSE /\ session_state' = ss /\ rendered' = {} /\ NoDownload
                       /\ UNCHANGED pc
    /\ clicked' = "download"
    /\ UNCHANGED <<url, arg, ret>>

\* yt-dlp calls the hook of line 88 from inside line 99
ProgressHook(d) ==
    /\ pc = "extract_info"
    /\ hook_calls < MaxEvents
    /\ LET r == progress_hook(d, status, progress_state)
       IN  /\ status' = r.status_box
           /\ progress_state' = r.progress_state
    /\ last_event' = d
    /\ hook_calls' = hook_calls + 1
    /\ UNCHANGED <<url, session_state, rendered, pc, request, ydl_opts,
                   temp_dir, download_button, info_dict, ext_calls,
                   path_exists, failure, propagated, clicked, arg, ret>>

\* lines 120-124 and the end of the with block of line 65
LeaveHandleDownload ==
    /\ session_state' = [session_state EXCEPT !.status_box = "absent"]
    /\ temp_dir' = TemporaryDirectoryExit(temp_dir)
    /\ pc' = "idle"
    /\ UNCHANGED <<url, request, ydl_opts, progress_state, last_event,
                   hook_calls, ext_calls, propagated, clicked, arg, ret>>

\* leaving the st.status block of line 93 by an exception marks a running
\* status as failed and keeps its label
StatusAfterException(st) ==
    IF st.state = "running" THEN [st EXCEPT !.state = "error"] ELSE st

\* line 99 raises (yt-dlp reports a DownloadError) and line 120 catches it
ExtractInfoRaises ==
    /\ pc = "extract_info"
    /\ rendered' = rendered \cup {ErrUnexpected("DownloadError")}
    /\ failure' = "DownloadError"
    /\ status' = StatusAfterException(status)
    /\ UNCHANGED <<download_button, info_dict, path_exists>>
    /\ LeaveHandleDownload

\* line 99 returns info; lines 100-124 run.  exists is the answer of
\* os.path.exists, read_ok whether lines 110-111 could read the file
ReturnFromExtractInfo(info, exists, read_ok) ==
    /\ info_dict' = info
    /\ LET actual_filepath == ResolveFilepath(info)
       IN  IF actual_filepath.raises # ""
           THEN /\ rendered' = rendered
                                 \cup {ErrUnexpected(actual_filepath.raises)}
                /\ failure' = actual_filepath.raises
                /\ status' = StatusAfterException(status)
                /\ download_button' = None
                /\ path_exists' = FALSE
           ELSE IF ~Truthy(actual_filepath.value) \/ ~exists
           THEN /\ status' = [label |-> <<"Download Failed">>,
                              state |-> "error"]
                /\ rendered' = rendered \cup {ErrFinalFile}
                /\ failure' = ""
                /\ download_button' = None
                /\ path_exists' = FALSE
           ELSE LET name == Basename(actual_filepath.value.s)
                IN  /\ status' = [label |-> <<"Download complete!">>,
                                  state |-> "complete"]
                    /\ path_exists' = TRUE
                    /\ IF read_ok
                       THEN /\ rendered' = rendered
                                   \cup {<<"File saved as: ">> \o name}
                            /\ download_button' =
                                 [label |-> <<"Download ">> \o name,
                                  data |-> actual_filepath.value.s,
                                  file_name |-> name,
                                  mime |-> IF request.format_type = "mp3"
                                           THEN "audio/mpeg"
                                           ELSE "video/mp4"]
                            /\ failure' = ""
                       ELSE /\ rendered' = rendered
                                   \cup {<<"File saved as: ">> \o name,
                                         ErrUnexpected("OSError")}
                            /\ failure' = "OSError"
                            /\ download_button' = None
    /\ LeaveHandleDownload

ExtractInfoReturns ==
    /\ pc = "extract_info"
    /\ \E info \in DownloadResults(ydl_opts, request.format_type) :
         \E exists, read_ok \in BOOLEAN :
           ReturnFromExtractInfo(info, exists, read_ok)

Next ==
    \/ \E u \in Urls : EditUrl(u)
    \/ ClickAnalyze
    \/ ClickStartDownload
    \/ \E d \in ProgressEvents : ProgressHook(d)
    \/ ExtractInfoRaises
    \/ ExtractInfoReturns

Spec == Init /\ [][Next]_vars

\* ======================================================================
\* sanitize_filename and extract_available_qualities applied alone
\* ======================================================================
PyList(items) == [t |-> "list", items |-> items]

SeqsUpTo(S, n) == UNION {[1..k -> S] : k \in 0..n}

FilenameChars == InvalidChars \cup {"a", "_", "."}

InitSanitize ==
    /\ SessionIdle
    /\ arg \in {PyStr(f) : f \in SeqsUpTo(FilenameChars, MaxLen)}
    /\ ret = None

ApplySanitize ==
    /\ ret = None
    /\ ret' = PyStr(sanitize_filename(arg.s))
    /\ UNCHANGED <<url, session_state, rendered, pc, download_vars, temp_dir,
                   clicked, arg>>

NextSanitize == ApplySanitize

SpecSanitize == InitSanitize /\ [][NextSanitize]_vars

\* entries of a 'formats' list: video and audio formats, other containers,
\* heights that are missing, None, a float or a str, missing keys
FormatEntries ==
    {[vcodec |-> "avc1", ext |-> "mp4", height |-> PyInt(1080)],
     [vcodec |-> "avc1", ext |-> "mp4", height |-> PyInt(720)],
     [vcodec |-> "avc1", ext |-> "mp4", height |-> PyInt(480)],
     [vcodec |-> "none", ext |-> "mp4", height |-> PyInt(360)],
     [vcodec |-> "vp9", ext |-> "webm", height |-> PyInt(1440)],
     [vcodec |-> "avc1", ext |-> "mp4", height |-> None],
     [vcodec |-> "avc1", ext |-> "mp4", height |-> PyFloat(240)],
     [vcodec |-> "avc1", ext |-> "mp4", height |-> PyStr(<<"1", "4", "4">>)],
     [ext |-> "mp4", height |-> PyInt(360)],
     [vcodec |-> "avc1", ext |-> "mp4"],
     [vcodec |-> "avc1", height |-> PyInt(2160)],
     [vcodec |-> "none", ext |-> "m4a"]}

InitQualities ==
    /\ SessionIdle
    /\ arg \in {[id |-> "v", formats |-> fs] :
                   fs \in SeqsUpTo(FormatEntries, MaxFormats)}
               \cup {[id |-> "v"]}
    /\ ret = None

ApplyQualities ==
    /\ ret = None
    /\ ret' = PyList(extract_available_qualities(arg))
    /\ UNCHANGED <<url, session_state, rendered, pc, download_vars, temp_dir,
                   clicked, arg>>

NextQualities == ApplyQualities

SpecQualities == InitQualities /\ [][NextQualities]_vars

\* ======================================================================
\* The claims
\* ======================================================================
HookCalled == hook_calls' = hook_calls + 1

\* C1: during every download, whatever 'downloading' and 'finished' events
\* reach progress_hook, step never exceeds total_steps + 1, and step changes
\* only on a 'finished' event (a 'downloading' event leaves step and
\* total_steps unchanged).
C1_StepBounded ==
    /\ [](progress_state # None
            => progress_state.step <= progress_state.total_steps + 1)
    /\ [][(HookCalled /\ last_event'.status # "finished")
            => progress_state' = progress_state]_vars
    /\ [][(pc = "extract_info" /\ progress_state' # progress_state)
            => HookCalled /\ last_event'.status = "finished"]_vars

\* the cases of C2: no requested_downloads, an empty one, a first entry
\* without a filepath, or a file that is not on disk
NoResolvablePath(info) ==
    \/ ~HasKey(info, "requested_downloads")
    \/ info.requested_downloads = <<>>
    \/ ~HasKey(info.requested_downloads[1], "filepath")

\* C2: when the result of the external download names no output file, or
\* the named file is not on disk, handle_download ends with the status
\* 'Download Failed' in error state and the message 'Could not retrieve the
\* final file.', creates no download button, and made one external call.
C2_FailureReported ==
    (pc = "idle" /\ info_dict # None
       /\ (NoResolvablePath(info_dict) \/ ~path_exists))
    => /\ status.label = <<"Download Failed">>
       /\ status.state = "error"
       /\ ErrFinalFile \in rendered
       /\ download_button = None
       /\ ext_calls = 1

\* C3: every failure raised inside handle_download is caught there and
\* rendered as 'An unexpected error occurred: ...'; none leaves the function.
C3_NoFailurePropagates ==
    failure # "" => ~propagated /\ ErrUnexpected(failure) \in rendered

\* C4: the temporary directory exists only while a download invocation is
\* in progress; once handle_download has ended, by exposing the file, by
\* the 'Download Failed' return or by an exception, it does not exist.
C4_TempDirScoped ==
    /\ temp_dir => pc = "extract_info" /\ request # None
    /\ pc = "idle" => ~temp_dir

C4_Witness ==
    /\ pc = "idle" /\ ~temp_dir /\ ext_calls = 1
    /\ status # None /\ status.label = <<"Download Failed">>

\* C5: handle_download is never invoked with an empty URL or without a
\* quality, and a click made with the URL missing shows the warning
\* 'Please enter a URL.'.
C5_InputValidated ==
    /\ request # None
         => request.url # <<>> /\ request.quality_setting # <<>>
    /\ (clicked # "none" /\ url = <<>>)
         => request = None /\ WarnEnterUrl \in rendered

\* the value of a decimal numeral
RECURSIVE DecimalValue(_)
DecimalValue(digits) ==
    IF digits = <<>> THEN 0
    ELSE 10 * DecimalValue(SubSeq(digits, 1, Len(digits) - 1))
         + (CHOOSE d \in 0..9 : Digit(d) = digits[Len(digits)])

IsQualityLabel(q) ==
    /\ Len(q) >= 2 /\ q[Len(q)] = "p"
    /\ \A i \in 1..(Len(q) - 1) : \E d \in 0..9 : q[i] = Digit(d)
    /\ (Len(q) > 2 => q[1] # "0")

HeightOf(q) == DecimalValue(SubSeq(q, 1, Len(q) - 1))

\* the heights C6 names: entries whose vcodec is not 'none', whose ext is
\* 'mp4' and whose height is an int
VideoMp4Heights(info) ==
    IF ~HasKey(info, "formats") THEN {}
    ELSE {info.formats[i].height.v :
            i \in {j \in 1..Len(info.formats) :
                     LET f == info.formats[j]
                     IN  /\ ~(HasKey(f, "vcodec") /\ f.vcodec = "none")
                         /\ HasKey(f, "ext") /\ f.ext = "mp4"
                         /\ HasKey(f, "height") /\ f.height.t = "int"}}

\* C6: extract_available_qualities returns the labels '<height>p' of the
\* distinct heights of the video mp4 entries with an int height, strictly
\* descending; with no such entry, or no formats, exactly ['720p', '360p'].
C6_QualitiesSortedUnique ==
    ret # None =>
      LET qs == ret.items
          heights == VideoMp4Heights(arg)
      IN  IF heights = {}
          THEN qs = << <<"7", "2", "0", "p">>, <<"3", "6", "0", "p">> >>
          ELSE /\ \A i \in 1..Len(qs) : IsQualityLabel(qs[i])
               /\ {HeightOf(qs[i]) : i \in 1..Len(qs)} = heights
               /\ \A i \in 1..(Len(qs) - 1) :
                    HeightOf(qs[i]) > HeightOf(qs[i + 1])

C6_Witness ==
    /\ ret # None
    /\ HasKey(arg, "formats") /\ Len(arg.formats) = 4
    /\ ret.items = << <<"1", "0", "8", "0", "p">>, <<"7", "2", "0", "p">>,
                      <<"4", "8", "0", "p">> >>

\* C7: sanitize_filename returns a string of the same length in which each
\* of < > : " / \ | ? * is replaced by '_' and every other character is
\* unchanged in place.
C7_SanitizedInPlace ==
    ret # None =>
      /\ Len(ret.s) = Len(arg.s)
      /\ \A i \in 1..Len(arg.s) :
           IF arg.s[i] \in {"<", ">", ":", "\"", "/", "\\", "|", "?", "*"}
           THEN ret.s[i] = "_" ELSE ret.s[i] = arg.s[i]
      /\ \A i \in 1..Len(ret.s) :
           ret.s[i] \notin {"<", ">", ":", "\"", "/", "\\", "|", "?", "*"}

C7_Witness ==
    ret # None /\ arg.s = <<"a", "\\", "?">> /\ ret.s = <<"a", "_", "_">>

\* C8: a 'downloading' event publishes 'Step <step>/<total_steps>:' with the
\* sanitized percent, speed and ETA and changes neither number; a 'finished'
\* event adds one to step and publishes the step it had before as finished,
\* conversion starting; any other event publishes and changes nothing.
C8_LabelShowsPriorStep ==
    [][HookCalled =>
         LET d == last_event'
             before == <<"Step ">> \o IntToStr(progress_state.step)
                       \o <<"/">> \o IntToStr(progress_state.total_steps)
                       \o <<":">>
         IN  IF d.status = "downloading"
             THEN /\ progress_state' = progress_state
                  /\ status'.state = status.state
                  /\ status'.label =
                       before \o <<" Downloading... ">>
                       \o sanitize_for_display(
                              DGet(d, "_percent_str", DefaultPercent))
                       \o <<" (">>
                       \o sanitize_for_display(
                              DGet(d, "_speed_str", DefaultNA))
                       \o <<" - ETA: ">>
                       \o sanitize_for_display(DGet(d, "_eta_str", DefaultNA))
                       \o <<")">>
             ELSE IF d.status = "finished"
             THEN /\ progress_state'.step = progress_state.step + 1
                  /\ progress_state'.total_steps = progress_state.total_steps
                  /\ status'.state = status.state
                  /\ status'.label =
                       before
                       \o <<" Download finished. Starting conversion...">>
             ELSE /\ progress_state' = progress_state
                  /\ status' = status]_vars

C8_Witness ==
    /\ pc = "extract_info" /\ hook_calls = 2
    /\ last_event.status = "finished"
    /\ progress_state = [step |-> 3, total_steps |-> 2]
    /\ status.label = <<"Step ", "2", "/", "2", ":",
                        " Download finished. Starting conversion...">>

\* C9: every invocation starts the external call with step = 1 and
\* total_steps = 2 in mp4 mode (the specifier merges two streams), 1 in mp3
\* mode, and no stage event changes total_steps afterwards.
C9_TotalStepsFixed ==
    /\ [][(pc = "idle" /\ pc' = "extract_info")
            => progress_state' =
                 [step |-> 1,
                  total_steps |-> IF request'.format_type = "mp4"
                                  THEN 2 ELSE 1]]_vars
    /\ [](pc = "extract_info"
            => /\ progress_state.total_steps =
                    IF request.format_type = "mp4" THEN 2 ELSE 1
               /\ (request.format_type = "mp4"
                     <=> Contains(ydl_opts.format, "+")))

C9_Witness ==
    /\ pc = "extract_info" /\ request.format_type = "mp4"
    /\ hook_calls = MaxEvents /\ progress_state.total_steps = 2

\* C10: whenever session video_info is set, it is the metadata fetched for
\* last_url and available_qualities is the non-empty list extracted from
\* it; a run whose URL is non-empty and differs from last_url clears
\* video_info and available_qualities.
C10_SessionCoherent ==
    /\ [](session_state.video_info # None
            => /\ session_state.last_url =
                    PyStr(session_state.video_info.original_url)
               /\ session_state.available_qualities # <<>>
               /\ session_state.available_qualities =
                    extract_available_qualities(session_state.video_info))
    /\ [][(url' # <<>> /\ PyStr(url') # session_state.last_url)
            => /\ session_state'.video_info = None
               /\ session_state'.available_qualities = <<>>
               /\ session_state'.last_url = PyStr(url')]_vars

C10_Witness ==
    /\ session_state.video_info # None
    /\ session_state.last_url = PyStr(<<"https://b">>)
    /\ url = <<>>
    /\ Len(session_state.available_qualities) = 3

====
